---- MODULE Spec2Model ----
(***************************************************************************)
(* HedgeDoc: the note permission service (backend), the authorship         *)
(* decoration state field of the editor, the history slice and the Gist    *)
(* export modal (frontend).                                                 *)
(*                                                                         *)
(* The permission service itself (permissions.service.ts) is not among the *)
(* sources; only its test suite is.  The service operators below are       *)
(* modelled from the specification (section 4 and 7) and are compared with *)
(* the fixtures and expected results the test suite states.                *)
(***************************************************************************)
EXTENDS Integers, Sequences, FiniteSets, TLC

VARIABLES
  note,          \* the Note under test: owner, userPermissions, groupPermissions
  noteConfig,    \* guestAccess and permissions.default.everyone
  call,          \* the last service call and what it returned
  events,        \* the events the last service call emitted
  docLength,              \* the length of the editor's document
  authorshipDecorations,  \* the DecorationSet of the authorship state field
  lastTransaction,        \* the last transaction and what the field made of it
  history,                \* the state of the history slice: a list of entries
  lastAction,             \* the last action the history reducer handled
  ghToken,                \* ExportGistModal: the token field
  gistDescription,        \* ExportGistModal: the description field
  gistPublic,             \* ExportGistModal: the public checkbox
  gistRequest             \* ExportGistModal: the last call of createGist

permVars == <<note, noteConfig, call, events>>
authVars == <<docLength, authorshipDecorations, lastTransaction>>
histVars == <<history, lastAction>>
gistVars == <<ghToken, gistDescription, gistPublic, gistRequest>>
vars == <<permVars, authVars, histVars, gistVars>>

---------------------------------------------------------------------------
(* Bounds *)

\* the largest number of grants (user grants plus group grants) of a note
MaxGrants == 2

\* the largest number of entries (users plus groups) of a permission update
MaxUpdate == 2

\* the longest document of the editor
MaxDoc == 3

\* the largest number of marks of the authorship decoration set
MaxMarks == 3

---------------------------------------------------------------------------
(* The editor before any transaction *)

\* Decoration.none
none == <<>>

\* no transaction yet
NoTransaction ==
  [dispatched |-> FALSE, decorations |-> none,
   changes |-> [from |-> 0, to |-> 0, insert |-> 0],
   effects |-> <<>>, mapped |-> none, steps |-> <<>>, threw |-> FALSE]

\* no action dispatched to the history slice yet
NoAction == [type |-> "none", payload |-> <<>>, state |-> <<>>]

\* the history slice while no action is dispatched to it
InitHistVars ==
  /\ history = <<>>
  /\ lastAction = NoAction

\* createGist was not called
NoRequest ==
  [called |-> FALSE, ghToken |-> <<>>, gistDescription |-> "", gistPublic |-> FALSE,
   notification |-> "none"]

\* ExportGistModal when it is first rendered
InitGistVars ==
  /\ ghToken = <<>>
  /\ gistDescription = ""
  /\ gistPublic = FALSE
  /\ gistRequest = NoRequest

\* authorshipsStateField.create
InitAuthVars ==
  /\ docLength = 0
  /\ authorshipDecorations = none
  /\ lastTransaction = NoTransaction

---------------------------------------------------------------------------
(* Fixtures of the permission test suite *)

Null == "null"

\* the two users the suite tests with, named by their fixtures
user1 == "user1"
user2 == "user2"
Users == {user1, user2}

EVERYONE == "EVERYONE"
LOGGED_IN == "LOGGED_IN"

\* createGroups: the two special groups and four ordinary groups
Groups ==
  {EVERYONE, LOGGED_IN, "user1group", "user2group", "user1and2group", "user2and1group"}

special(group) == group \in {EVERYONE, LOGGED_IN}

members(group) ==
  CASE group = "user1group" -> {user1}
    [] group = "user2group" -> {user2}
    [] group = "user1and2group" -> {user1, user2}
    [] group = "user2and1group" -> {user2, user1}
    [] OTHER -> {}

\* GuestAccess and DefaultAccessLevel enums
GuestAccess == {"deny", "read", "write", "create"}
DefaultAccessLevel == {"none", "read", "write"}

createUserPermission(user, canEdit) == [user |-> user, canEdit |-> canEdit]
createNoteGroupPermission(group, write) == [group |-> group, canEdit |-> write]

createNote(owner) ==
  [owner |-> owner, userPermissions |-> <<>>, groupPermissions |-> <<>>]

\* createNoteUserPermissionNotes: the notes of the guest tests
noteEverybodyNone == createNote(user1)
\* mutant: the EVERYONE grant is created but not attached to the note
noteEverybodyRead_unattached == createNote(user1)
noteEverybodyRead ==
  [createNote(user1) EXCEPT
     !.groupPermissions = <<createNoteGroupPermission(EVERYONE, FALSE)>>]
\* mutant: the note of the guest write tests gets a read-only grant
noteEverybodyWrite_readOnly ==
  [createNote(user1) EXCEPT
     !.groupPermissions = <<createNoteGroupPermission(EVERYONE, FALSE)>>]
noteEverybodyWrite ==
  [createNote(user1) EXCEPT
     !.groupPermissions = <<createNoteGroupPermission(EVERYONE, TRUE)>>]

user1ReadPermission == createUserPermission(user1, FALSE)
user2ReadPermission == createUserPermission(user2, FALSE)
user1WritePermission == createUserPermission(user1, TRUE)
user2WritePermission == createUserPermission(user2, TRUE)

\* createNoteUserPermissionNotes: the notes of the user-permission tests
noteNobodyRead == createNote(user1)
\* mutant: user1's write grant is pushed instead of the read grant
noteUser1Read_write ==
  [createNote(user2) EXCEPT !.userPermissions = <<user1WritePermission>>]
noteUser1Read ==
  [createNote(user2) EXCEPT !.userPermissions = <<user1ReadPermission>>]
\* mutant: user1's grant is pushed instead of user2's
noteUser2Read_user1 ==
  [createNote(user2) EXCEPT !.userPermissions = <<user1ReadPermission>>]
noteUser2Read ==
  [createNote(user2) EXCEPT !.userPermissions = <<user2ReadPermission>>]
noteAllUsersRead1 ==
  [createNote(user2) EXCEPT
     !.userPermissions = <<user1ReadPermission, user2ReadPermission>>]
noteAllUsersRead2 ==
  [createNote(user2) EXCEPT
     !.userPermissions = <<user1ReadPermission, user2ReadPermission>>]
noteUser2Write ==
  [createNote(user2) EXCEPT !.userPermissions = <<user1WritePermission>>]
noteAllWrite1 ==
  [createNote(user2) EXCEPT
     !.userPermissions = <<user1WritePermission, user2WritePermission>>]
noteAllWrite2 ==
  [createNote(user2) EXCEPT
     !.userPermissions = <<user2WritePermission, user1WritePermission>>]

\* mutant: the suite would expect that user1 may not read a note all may write
mayReadWorksWith_allWrite ==
  {<<noteNobodyRead, TRUE>>, <<noteUser2Read, FALSE>>,
   <<noteUser1Read, TRUE>>, <<noteAllUsersRead1, TRUE>>, <<noteAllUsersRead2, TRUE>>,
   <<noteUser2Write, TRUE>>, <<noteAllWrite1, FALSE>>, <<noteAllWrite2, TRUE>>}

\* 'mayRead works with': each expectation of the suite, <<note, expected>>, for user1
mayReadWorksWith ==
  {<<noteNobodyRead, TRUE>>, <<noteUser2Read, FALSE>>,
   <<noteUser1Read, TRUE>>, <<noteAllUsersRead1, TRUE>>, <<noteAllUsersRead2, TRUE>>,
   <<noteUser2Write, TRUE>>, <<noteAllWrite1, TRUE>>, <<noteAllWrite2, TRUE>>}

\* 'mayWrite works with': each expectation of the suite, <<note, expected>>, for user1
mayWriteWorksWith ==
  {<<noteNobodyRead, TRUE>>, <<noteUser2Read, FALSE>>,
   <<noteUser1Read, FALSE>>, <<noteAllUsersRead1, FALSE>>, <<noteAllUsersRead2, FALSE>>,
   <<noteUser2Write, TRUE>>, <<noteAllWrite1, TRUE>>, <<noteAllWrite2, TRUE>>}

\* 'mayRead ... guest permission': <<guestAccess, note, expected>>, default levels WRITE
mayReadGuestPermission ==
  {<<"deny", noteEverybodyNone, FALSE>>, <<"deny", noteEverybodyRead, FALSE>>,
   <<"deny", noteEverybodyWrite, FALSE>>,
   <<"read", noteEverybodyNone, FALSE>>, <<"read", noteEverybodyRead, TRUE>>,
   <<"read", noteEverybodyWrite, TRUE>>,
   <<"write", noteEverybodyNone, FALSE>>, <<"write", noteEverybodyRead, TRUE>>,
   <<"write", noteEverybodyWrite, TRUE>>,
   <<"create", noteEverybodyNone, FALSE>>, <<"create", noteEverybodyRead, TRUE>>,
   <<"create", noteEverybodyWrite, TRUE>>}

\* 'mayWrite ... guest permission': <<guestAccess, note, expected>>, default levels WRITE
mayWriteGuestPermission ==
  {<<"deny", noteEverybodyNone, FALSE>>, <<"deny", noteEverybodyRead, FALSE>>,
   <<"deny", noteEverybodyWrite, FALSE>>,
   <<"read", noteEverybodyNone, FALSE>>, <<"read", noteEverybodyRead, FALSE>>,
   <<"read", noteEverybodyWrite, FALSE>>,
   <<"write", noteEverybodyNone, FALSE>>, <<"write", noteEverybodyRead, FALSE>>,
   <<"write", noteEverybodyWrite, TRUE>>,
   <<"create", noteEverybodyNone, FALSE>>, <<"create", noteEverybodyRead, FALSE>>,
   <<"create", noteEverybodyWrite, TRUE>>}

\* mutant: the suite would let a guest create notes with guest access WRITE
mayCreateWorks_guestWrite ==
  {<<user1, GuestAccess, DefaultAccessLevel, TRUE>>,
   <<Null, {"create"}, {"write"}, TRUE>>,
   <<Null, {"write"}, {"write"}, TRUE>>}

\* 'mayCreate': the caller, the guest access and default level the test runs
\* under (the first test sets none), and the expected result
mayCreateWorks ==
  {<<user1, GuestAccess, DefaultAccessLevel, TRUE>>,
   <<Null, {"create"}, {"write"}, TRUE>>,
   <<Null, {"write"}, {"write"}, FALSE>>}

\* createAllNoteGroupPermissions: the five lists of grants, seen from user1
\* mutant: user2's group is listed among the groups that let user1 read
group0_user2group ==
  {createNoteGroupPermission(g, FALSE) :
     g \in {"user1group", "user1and2group", "user2and1group", "user2group"}}
group0 == {createNoteGroupPermission(g, FALSE) :
             g \in {"user1group", "user1and2group", "user2and1group"}}
group1 == {createNoteGroupPermission(g, TRUE) :
             g \in {"user2and1group", "user1and2group", "user1group"}}
group2 == {createNoteGroupPermission(EVERYONE, w) : w \in BOOLEAN}
\* mutant: the list of the LOGGED_IN grants is built from the EVERYONE group
group3_everyone == {createNoteGroupPermission(EVERYONE, w) : w \in BOOLEAN}
group3 == {createNoteGroupPermission(LOGGED_IN, w) : w \in BOOLEAN}
group4 == {createNoteGroupPermission("user2group", w) : w \in BOOLEAN}

Range(f) == {f[i] : i \in DOMAIN f}

\* createNoteGroupPermissionsCombinations: what the suite expects for user1
\* mutant: an EVERYONE grant is expected to give read access at any default level
allowsRead_uncapped(permissions, everyoneDefaultPermission) ==
  \/ Range(permissions) \cap group0 # {}
  \/ Range(permissions) \cap group1 # {}
  \/ Range(permissions) \cap group2 # {}
  \/ Range(permissions) \cap group3 # {}

allowsRead(permissions, everyoneDefaultPermission) ==
  \/ Range(permissions) \cap group0 # {}
  \/ Range(permissions) \cap group1 # {}
  \/ /\ Range(permissions) \cap group2 # {}
     /\ everyoneDefaultPermission \in {"write", "read"}
  \/ Range(permissions) \cap group3 # {}

allowsWrite(permissions, everyoneDefaultPermission) ==
  \/ Range(permissions) \cap group1 # {}
  \/ /\ everyoneDefaultPermission = "write"
     /\ \E p \in Range(permissions) \cap group2 : p.canEdit
  \/ \E p \in Range(permissions) \cap group3 : p.canEdit

\* mutant: the splice loses the last element of one ordering
permutator_lossy(inputArr) ==
  LET n == Len(inputArr)
      perms == {f \in [1..n -> 1..n] : \A i, j \in 1..n : f[i] = f[j] => i = j}
  IN  {[i \in 1..n |-> inputArr[f[i]]] : f \in perms}
        \cup {SubSeq(inputArr, 1, n - 1) : k \in {m \in {1} : n > 0}}

\* permutator: every ordering of a list
permutator(inputArr) ==
  LET n == Len(inputArr)
      perms == {f \in [1..n -> 1..n] : \A i, j \in 1..n : f[i] = f[j] => i = j}
  IN  {[i \in 1..n |-> inputArr[f[i]]] : f \in perms}

---------------------------------------------------------------------------
(* The permission service: evaluation *)

LoggedIn(user) == user # Null
HasUserGrant(user, n) == \E i \in DOMAIN n.userPermissions : n.userPermissions[i].user = user
HasEditUserGrant(user, n) ==
  \E i \in DOMAIN n.userPermissions :
    n.userPermissions[i].user = user /\ n.userPermissions[i].canEdit
GrantsOf(n, group) == {p \in Range(n.groupPermissions) : p.group = group}

isOwner(user, n) ==
  /\ user # Null
  /\ n.owner # Null
  /\ n.owner = user

\* the per-user grants, looked through in list order
RECURSIVE hasPermissionUserFrom(_, _, _, _)
hasPermissionUserFrom(i, user, n, wantEdit) ==
  IF i > Len(n.userPermissions) THEN FALSE
  ELSE IF /\ n.userPermissions[i].user = user
          /\ (n.userPermissions[i].canEdit \/ ~wantEdit)
       THEN TRUE
       ELSE hasPermissionUserFrom(i + 1, user, n, wantEdit)

hasPermissionUser(user, n, wantEdit) ==
  IF user = Null THEN FALSE ELSE hasPermissionUserFrom(1, user, n, wantEdit)

\* what the guest-access policy lets a guest do at most
guestAllowed(config, wantEdit) ==
  IF wantEdit THEN config.guestAccess \in {"write", "create"}
  ELSE config.guestAccess \in {"read", "write", "create"}

\* what the default access level for everyone lets the special group EVERYONE do
everyoneAllowed(config, wantEdit) ==
  IF wantEdit THEN config.everyone = "write"
  ELSE config.everyone \in {"read", "write"}

groupPermissionApplies(user, groupPermission, config, wantEdit) ==
  /\ groupPermission.canEdit \/ ~wantEdit
  /\ IF special(groupPermission.group)
     THEN IF groupPermission.group = LOGGED_IN
          THEN user # Null
          ELSE /\ everyoneAllowed(config, wantEdit)
               /\ user = Null => guestAllowed(config, wantEdit)
     ELSE user # Null /\ user \in members(groupPermission.group)

\* the per-group grants, looked through in list order
RECURSIVE hasPermissionGroupFrom(_, _, _, _, _)
hasPermissionGroupFrom(i, user, n, config, wantEdit) ==
  IF i > Len(n.groupPermissions) THEN FALSE
  ELSE IF groupPermissionApplies(user, n.groupPermissions[i], config, wantEdit)
       THEN TRUE
       ELSE hasPermissionGroupFrom(i + 1, user, n, config, wantEdit)

hasPermissionGroup(user, n, config, wantEdit) ==
  hasPermissionGroupFrom(1, user, n, config, wantEdit)

mayRead(user, n, config) ==
  IF isOwner(user, n) THEN TRUE
  ELSE IF hasPermissionUser(user, n, FALSE) THEN TRUE
  ELSE hasPermissionGroup(user, n, config, FALSE)

mayWrite(user, n, config) ==
  IF isOwner(user, n) THEN TRUE
  ELSE IF hasPermissionUser(user, n, TRUE) THEN TRUE
  ELSE hasPermissionGroup(user, n, config, TRUE)

mayCreate(user, config) ==
  user # Null \/ config.guestAccess = "create"

---------------------------------------------------------------------------
(* The notes and configurations the evaluation is called with *)

SeqsUpTo(S, n) == UNION {[1..k -> S] : k \in 0..n}

UserGrants == {createUserPermission(u, e) : u \in Users, e \in BOOLEAN}
GroupGrants == {createNoteGroupPermission(g, e) : g \in Groups, e \in BOOLEAN}

\* at most one grant per user, as the suite's notes have
UserPermissionLists ==
  {l \in SeqsUpTo(UserGrants, MaxGrants) :
     \A i, j \in DOMAIN l : l[i].user = l[j].user => i = j}

\* no grant twice; one group may have a read and a write grant, as in the suite
GroupPermissionLists ==
  {l \in SeqsUpTo(GroupGrants, MaxGrants) :
     \A i, j \in DOMAIN l : l[i] = l[j] => i = j}

Notes ==
  {n \in [owner : Users \cup {Null},
          userPermissions : UserPermissionLists,
          groupPermissions : GroupPermissionLists] :
     Len(n.userPermissions) + Len(n.groupPermissions) <= MaxGrants}

Configs == [guestAccess : GuestAccess, everyone : DefaultAccessLevel]

\* a call: the operation, the caller, the note and the further arguments it
\* was called with, and what it returned
NoNote == createNote(Null)
NoCall ==
  [op |-> "none", user |-> Null, note |-> NoNote, args |-> <<>>, result |-> FALSE]

InitMay ==
  /\ InitAuthVars
  /\ InitHistVars
  /\ InitGistVars
  /\ note \in Notes
  /\ noteConfig \in Configs
  /\ call = NoCall
  /\ events = <<>>

MayRead(user) ==
  /\ call = NoCall
  /\ call' = [op |-> "mayRead", user |-> user, note |-> note, args |-> <<>>,
              result |-> mayRead(user, note, noteConfig)]
  /\ UNCHANGED <<note, noteConfig, events, authVars, histVars, gistVars>>

MayWrite(user) ==
  /\ call = NoCall
  /\ call' = [op |-> "mayWrite", user |-> user, note |-> note, args |-> <<>>,
              result |-> mayWrite(user, note, noteConfig)]
  /\ UNCHANGED <<note, noteConfig, events, authVars, histVars, gistVars>>

MayCreate(user) ==
  /\ call = NoCall
  /\ call' = [op |-> "mayCreate", user |-> user, note |-> NoNote, args |-> <<>>,
              result |-> mayCreate(user, noteConfig)]
  /\ UNCHANGED <<note, noteConfig, events, authVars, histVars, gistVars>>

NextMay ==
  \E user \in Users \cup {Null} :
    \/ MayRead(user)
    \/ MayWrite(user)
    \/ MayCreate(user)

SpecMay == InitMay /\ [][NextMay]_vars

---------------------------------------------------------------------------
(* Claims about the permission evaluation, under SpecMay *)

\* the caller gets nothing from ownership or a per-user grant
OnlyGroups(user, n) == ~isOwner(user, n) /\ ~HasUserGrant(user, n)

\* C3: for a logged-in user and a note without group grants, mayRead is true
\* iff the user is the owner or has a per-user grant (canEdit true or false);
\* and it returns what each 'mayRead works with' test expects for user1.
C3_MayReadUserGrants ==
  (call.op = "mayRead" /\ LoggedIn(call.user) /\ note.groupPermissions = <<>>) =>
    /\ call.result = (note.owner = call.user \/ HasUserGrant(call.user, note))
    /\ \A e \in mayReadWorksWith :
         (call.user = user1 /\ note = e[1]) => call.result = e[2]

C3_Witness ==
  /\ call.op = "mayRead" /\ call.user = user1
  /\ note = noteUser1Read /\ call.result = TRUE

\* C4: for a logged-in user and a note without group grants, mayWrite is true
\* iff the user is the owner or has a per-user grant with canEdit = true;
\* and it returns what each 'mayWrite works with' test expects for user1.
C4_MayWriteUserGrants ==
  (call.op = "mayWrite" /\ LoggedIn(call.user) /\ note.groupPermissions = <<>>) =>
    /\ call.result = (note.owner = call.user \/ HasEditUserGrant(call.user, note))
    /\ \A e \in mayWriteWorksWith :
         (call.user = user1 /\ note = e[1]) => call.result = e[2]

C4_Witness ==
  /\ call.op = "mayWrite" /\ call.user = user1
  /\ note = noteUser1Read /\ call.result = FALSE

\* C5: for a guest, with the default access level WRITE, mayRead is false when
\* guestAccess is DENY whatever the grants, and otherwise true iff the note has
\* a grant for EVERYONE; and it returns what each guest test of mayRead expects.
C5_MayReadGuest ==
  (call.op = "mayRead" /\ call.user = Null /\ noteConfig.everyone = "write") =>
    /\ call.result =
         (noteConfig.guestAccess # "deny" /\ GrantsOf(note, EVERYONE) # {})
    /\ \A e \in mayReadGuestPermission :
         (noteConfig.guestAccess = e[1] /\ note = e[2]) => call.result = e[3]

C5_Witness ==
  /\ call.op = "mayRead" /\ call.user = Null /\ noteConfig.everyone = "write"
  /\ noteConfig.guestAccess = "read" /\ note = noteEverybodyRead
  /\ call.result = TRUE

\* C6: for a guest, with the default access level WRITE, mayWrite is true iff
\* guestAccess is WRITE or CREATE and the note has a grant for EVERYONE with
\* canEdit = true; and it returns what each guest test of mayWrite expects.
C6_MayWriteGuest ==
  (call.op = "mayWrite" /\ call.user = Null /\ noteConfig.everyone = "write") =>
    /\ call.result =
         (/\ noteConfig.guestAccess \in {"write", "create"}
          /\ \E p \in GrantsOf(note, EVERYONE) : p.canEdit)
    /\ \A e \in mayWriteGuestPermission :
         (noteConfig.guestAccess = e[1] /\ note = e[2]) => call.result = e[3]

C6_Witness ==
  /\ call.op = "mayWrite" /\ call.user = Null /\ noteConfig.everyone = "write"
  /\ noteConfig.guestAccess = "write" /\ note = noteEverybodyWrite
  /\ call.result = TRUE

OrdinaryOnly(n) == \A p \in Range(n.groupPermissions) : ~special(p.group)

\* C7: for a logged-in user who is neither owner nor per-user grantee, grants
\* to ordinary groups give read access iff the user is a member of one of them
\* and write access iff the user is a member of one granted with canEdit; and
\* for user1 this is what the suite's combinations expect.
C7_OrdinaryGroups ==
  (/\ call.op \in {"mayRead", "mayWrite"} /\ LoggedIn(call.user)
   /\ OnlyGroups(call.user, note) /\ OrdinaryOnly(note)) =>
    /\ call.op = "mayRead" =>
         /\ call.result =
              (\E p \in Range(note.groupPermissions) : call.user \in members(p.group))
         /\ call.user = user1 =>
              call.result = allowsRead(note.groupPermissions, noteConfig.everyone)
    /\ call.op = "mayWrite" =>
         /\ call.result =
              (\E p \in Range(note.groupPermissions) :
                 call.user \in members(p.group) /\ p.canEdit)
         /\ call.user = user1 =>
              call.result = allowsWrite(note.groupPermissions, noteConfig.everyone)

C7_Witness ==
  /\ call.op = "mayWrite" /\ call.user = user1 /\ note.owner = user2
  /\ note.userPermissions = <<>>
  /\ note.groupPermissions =
       <<createNoteGroupPermission("user2group", TRUE),
         createNoteGroupPermission("user1group", FALSE)>>
  /\ call.result = FALSE

\* C8: a grant to LOGGED_IN gives every logged-in user read access, and write
\* access iff it has canEdit = true (the note having no other source of
\* access), although the group stores no member.
C8_LoggedInGroup ==
  (/\ call.op \in {"mayRead", "mayWrite"} /\ LoggedIn(call.user)
   /\ GrantsOf(note, LOGGED_IN) # {}) =>
    /\ members(LOGGED_IN) = {}
    /\ call.op = "mayRead" => call.result = TRUE
    /\ (/\ call.op = "mayWrite" /\ OnlyGroups(call.user, note)
        /\ Range(note.groupPermissions) = GrantsOf(note, LOGGED_IN)) =>
         /\ call.result = (\E p \in GrantsOf(note, LOGGED_IN) : p.canEdit)
         /\ call.user = user1 =>
              call.result = allowsWrite(note.groupPermissions, noteConfig.everyone)
    /\ (call.op = "mayRead" /\ call.user = user1 /\ OnlyGroups(call.user, note)) =>
         call.result = allowsRead(note.groupPermissions, noteConfig.everyone)

C8_Witness ==
  /\ call.op = "mayWrite" /\ call.user = user2 /\ note.owner = user1
  /\ note.userPermissions = <<>>
  /\ note.groupPermissions = <<createNoteGroupPermission(LOGGED_IN, TRUE)>>
  /\ call.result = TRUE

\* C9: for a logged-in user with no other source of access, a grant to EVERYONE
\* is capped by the default access level for everyone: WRITE gives read, and
\* write iff canEdit = true; READ gives read only; another level gives nothing.
C9_EveryoneCapped ==
  (/\ call.op \in {"mayRead", "mayWrite"} /\ LoggedIn(call.user)
   /\ OnlyGroups(call.user, note)
   /\ GrantsOf(note, EVERYONE) # {}
   /\ Range(note.groupPermissions) = GrantsOf(note, EVERYONE)) =>
    /\ call.op = "mayRead" =>
         call.result = (noteConfig.everyone \in {"write", "read"})
    /\ call.op = "mayWrite" =>
         call.result = (/\ noteConfig.everyone = "write"
                        /\ \E p \in GrantsOf(note, EVERYONE) : p.canEdit)
    /\ (call.user = user1 /\ call.op = "mayRead") =>
         call.result = allowsRead(note.groupPermissions, noteConfig.everyone)
    /\ (call.user = user1 /\ call.op = "mayWrite") =>
         call.result = allowsWrite(note.groupPermissions, noteConfig.everyone)

C9_Witness ==
  /\ call.op = "mayWrite" /\ call.user = user1 /\ note.owner = user2
  /\ note.userPermissions = <<>>
  /\ note.groupPermissions = <<createNoteGroupPermission(EVERYONE, TRUE)>>
  /\ noteConfig.everyone = "read"
  /\ call.result = FALSE

WithGroupPermissions(n, permissions) == [n EXCEPT !.groupPermissions = permissions]

\* C10: with access coming from group grants only, every permutation of the
\* groupPermissions list gives the same mayRead and mayWrite result, and the
\* result is the disjunction of what each single grant allows.
C10_OrderIndependent ==
  (call.op \in {"mayRead", "mayWrite"} /\ OnlyGroups(call.user, note)) =>
    /\ call.op = "mayRead" =>
         /\ \A permutation \in permutator(note.groupPermissions) :
              mayRead(call.user, WithGroupPermissions(note, permutation), noteConfig)
                = call.result
         /\ call.result =
              (\E i \in DOMAIN note.groupPermissions :
                 mayRead(call.user,
                         WithGroupPermissions(note, <<note.groupPermissions[i]>>),
                         noteConfig))
    /\ call.op = "mayWrite" =>
         /\ \A permutation \in permutator(note.groupPermissions) :
              mayWrite(call.user, WithGroupPermissions(note, permutation), noteConfig)
                = call.result
         /\ call.result =
              (\E i \in DOMAIN note.groupPermissions :
                 mayWrite(call.user,
                          WithGroupPermissions(note, <<note.groupPermissions[i]>>),
                          noteConfig))

C10_Witness ==
  /\ call.op = "mayWrite" /\ call.user = user1 /\ note.owner = user2
  /\ note.userPermissions = <<>>
  /\ note.groupPermissions =
       <<createNoteGroupPermission("user2group", TRUE),
         createNoteGroupPermission("user1group", TRUE)>>
  /\ call.result = TRUE

\* C11: mayCreate(user) is true for every logged-in user; for a guest it is true
\* iff guestAccess is CREATE, so it is false with guestAccess WRITE even when
\* the default access level is WRITE; and it returns what each 'mayCreate' test
\* expects.
C11_MayCreate ==
  call.op = "mayCreate" =>
    /\ LoggedIn(call.user) => call.result = TRUE
    /\ call.user = Null => call.result = (noteConfig.guestAccess = "create")
    /\ \A e \in mayCreateWorks :
         (/\ call.user = e[1]
          /\ noteConfig.guestAccess \in e[2]
          /\ noteConfig.everyone \in e[3]) => call.result = e[4]

C11_Witness ==
  /\ call.op = "mayCreate" /\ call.user = Null
  /\ noteConfig.guestAccess = "write" /\ noteConfig.everyone = "write"
  /\ call.result = FALSE

---------------------------------------------------------------------------
(* The permission service: changing the grants of a note *)

\* the update tests' user and group, and the set tests' user and group
userPermissionUpdate == [username |-> "hardcoded", canEdit |-> TRUE]
groupPermissionUpdate == [groupName |-> "testGroup", canEdit |-> FALSE]
Usernames == {userPermissionUpdate.username, "test"}
GroupNames == {groupPermissionUpdate.groupName, "test"}

\* mutant: the first update of the suite names the user only once
updateNotePermissionsFails_single ==
  {[sharedToUsers |-> <<userPermissionUpdate>>,
    sharedToGroups |-> <<>>],
   [sharedToUsers |-> <<>>,
    sharedToGroups |-> <<groupPermissionUpdate, groupPermissionUpdate>>],
   [sharedToUsers |-> <<userPermissionUpdate, userPermissionUpdate>>,
    sharedToGroups |-> <<groupPermissionUpdate, groupPermissionUpdate>>]}

\* 'updateNotePermissions fails:' the three updates the suite expects rejected
updateNotePermissionsFails ==
  {[sharedToUsers |-> <<userPermissionUpdate, userPermissionUpdate>>,
    sharedToGroups |-> <<>>],
   [sharedToUsers |-> <<>>,
    sharedToGroups |-> <<groupPermissionUpdate, groupPermissionUpdate>>],
   [sharedToUsers |-> <<userPermissionUpdate, userPermissionUpdate>>,
    sharedToGroups |-> <<groupPermissionUpdate, groupPermissionUpdate>>]}

\* the grants a note of the suite may hold where a test does not set them
AnyUserPermissions ==
  {l \in SeqsUpTo({createUserPermission(u, e) : u \in Usernames, e \in BOOLEAN},
                  Cardinality(Usernames)) :
     \A i, j \in DOMAIN l : l[i].user = l[j].user => i = j}
AnyGroupPermissions ==
  {l \in SeqsUpTo({createNoteGroupPermission(g, e) : g \in GroupNames, e \in BOOLEAN},
                  Cardinality(GroupNames)) :
     \A i, j \in DOMAIN l : l[i].group = l[j].group => i = j}

\* mutant: the last test would find the grants the note had before
updateNotePermissionsWorks_kept ==
  LET user == createUserPermission(userPermissionUpdate.username,
                                   userPermissionUpdate.canEdit)
      group == createNoteGroupPermission(groupPermissionUpdate.groupName,
                                         groupPermissionUpdate.canEdit)
      existingUser == [user EXCEPT !.canEdit = ~userPermissionUpdate.canEdit]
      existingGroup == [group EXCEPT !.canEdit = ~groupPermissionUpdate.canEdit]
  IN  {[userPermissions |-> {<<existingUser>>}, groupPermissions |-> {<<existingGroup>>},
        sharedToUsers |-> <<userPermissionUpdate>>,
        sharedToGroups |-> <<groupPermissionUpdate>>,
        savedUsers |-> <<existingUser>>, savedGroups |-> <<existingGroup>>]}

\* 'updateNotePermissions works': the grants of the note handed to the service
\* (any where the test takes the note as the tests before left it), the update,
\* and the grants expected in the saved note: none where the test expects
\* length 0, else the first one
updateNotePermissionsWorks ==
  LET user == createUserPermission(userPermissionUpdate.username,
                                   userPermissionUpdate.canEdit)
      group == createNoteGroupPermission(groupPermissionUpdate.groupName,
                                         groupPermissionUpdate.canEdit)
      existingUser == [user EXCEPT !.canEdit = ~userPermissionUpdate.canEdit]
      existingGroup == [group EXCEPT !.canEdit = ~groupPermissionUpdate.canEdit]
  IN  {[userPermissions |-> AnyUserPermissions, groupPermissions |-> AnyGroupPermissions,
        sharedToUsers |-> <<>>, sharedToGroups |-> <<>>,
        savedUsers |-> <<>>, savedGroups |-> <<>>],
       [userPermissions |-> AnyUserPermissions, groupPermissions |-> AnyGroupPermissions,
        sharedToUsers |-> <<userPermissionUpdate>>, sharedToGroups |-> <<>>,
        savedUsers |-> <<user>>, savedGroups |-> <<>>],
       [userPermissions |-> AnyUserPermissions, groupPermissions |-> AnyGroupPermissions,
        sharedToUsers |-> <<>>, sharedToGroups |-> <<groupPermissionUpdate>>,
        savedUsers |-> <<>>, savedGroups |-> <<group>>],
       [userPermissions |-> AnyUserPermissions, groupPermissions |-> AnyGroupPermissions,
        sharedToUsers |-> <<userPermissionUpdate>>,
        sharedToGroups |-> <<groupPermissionUpdate>>,
        savedUsers |-> <<user>>, savedGroups |-> <<group>>],
       [userPermissions |-> {<<existingUser>>}, groupPermissions |-> AnyGroupPermissions,
        sharedToUsers |-> <<userPermissionUpdate>>,
        sharedToGroups |-> <<groupPermissionUpdate>>,
        savedUsers |-> <<user>>, savedGroups |-> <<group>>],
       [userPermissions |-> AnyUserPermissions, groupPermissions |-> {<<existingGroup>>},
        sharedToUsers |-> <<>>, sharedToGroups |-> <<groupPermissionUpdate>>,
        savedUsers |-> <<>>, savedGroups |-> <<group>>],
       [userPermissions |-> AnyUserPermissions, groupPermissions |-> {<<existingGroup>>},
        sharedToUsers |-> <<userPermissionUpdate>>,
        sharedToGroups |-> <<groupPermissionUpdate>>,
        savedUsers |-> <<user>>, savedGroups |-> <<group>>],
       [userPermissions |-> {<<existingUser>>}, groupPermissions |-> {<<existingGroup>>},
        sharedToUsers |-> <<userPermissionUpdate>>,
        sharedToGroups |-> <<groupPermissionUpdate>>,
        savedUsers |-> <<user>>, savedGroups |-> <<group>>]}

PermissionsUpdateInconsistentError == "PermissionsUpdateInconsistentError"
PERMISSION_CHANGE == "PERMISSION_CHANGE"

\* mutant: the suite would expect another event of setUserPermission
emitsPermissionChange_otherEvent ==
  {[op |-> "setUserPermission", note |-> createNote(Null),
    args |-> <<"test", TRUE>>, event |-> "DELETION"]}

\* 'emits PERMISSION_CHANGE event': the call of each of the five tests and the
\* event its mocked emitter expects
emitsPermissionChange ==
  {[op |-> "updateNotePermissions",
    note |-> createNote(userPermissionUpdate.username),
    args |-> [sharedToUsers |-> <<>>, sharedToGroups |-> <<>>],
    event |-> PERMISSION_CHANGE],
   [op |-> "setUserPermission", note |-> createNote(Null),
    args |-> <<"test", TRUE>>, event |-> PERMISSION_CHANGE],
   [op |-> "removeUserPermission",
    note |-> [createNote(Null) EXCEPT
                !.userPermissions = <<createUserPermission("test", TRUE)>>],
    args |-> <<"test">>, event |-> PERMISSION_CHANGE],
   [op |-> "setGroupPermission", note |-> createNote(Null),
    args |-> <<"test", TRUE>>, event |-> PERMISSION_CHANGE],
   [op |-> "removeGroupPermission",
    note |-> [createNote(Null) EXCEPT
                !.groupPermissions = <<createNoteGroupPermission("test", TRUE)>>],
    args |-> <<"test">>, event |-> PERMISSION_CHANGE]}

\* mutant: the suite would find the grant it set before as the first one
setUserPermissionWorks_appended ==
  {[note |-> [createNote(Null) EXCEPT
                !.userPermissions = <<createUserPermission("test", FALSE)>>],
    user |-> "test", canEdit |-> TRUE,
    noteUserPermission |-> createUserPermission("test", FALSE)]}

\* 'setUserPermission works': the note and arguments of each test and the
\* grant it expects first in the result
setUserPermissionWorks ==
  {[note |-> createNote(Null), user |-> "test", canEdit |-> TRUE,
    noteUserPermission |-> createUserPermission("test", TRUE)],
   [note |-> createNote(Null), user |-> "test", canEdit |-> FALSE,
    noteUserPermission |-> createUserPermission("test", FALSE)],
   [note |-> [createNote(Null) EXCEPT
                !.userPermissions = <<createUserPermission("test", FALSE)>>],
    user |-> "test", canEdit |-> TRUE,
    noteUserPermission |-> createUserPermission("test", TRUE)],
   [note |-> [createNote(Null) EXCEPT
                !.userPermissions = <<createUserPermission("test", TRUE)>>],
    user |-> "test", canEdit |-> FALSE,
    noteUserPermission |-> createUserPermission("test", FALSE)]}

\* mutant: the suite would find the grant it set before as the first one
setGroupPermissionWorks_appended ==
  {[note |-> [createNote(Null) EXCEPT
                !.groupPermissions = <<createNoteGroupPermission("test", TRUE)>>],
    group |-> "test", canEdit |-> FALSE,
    noteGroupPermission |-> createNoteGroupPermission("test", TRUE)]}

\* 'setGroupPermission works': the note and arguments of each test and the
\* grant it expects first in the result
setGroupPermissionWorks ==
  {[note |-> createNote(Null), group |-> "test", canEdit |-> TRUE,
    noteGroupPermission |-> createNoteGroupPermission("test", TRUE)],
   [note |-> createNote(Null), group |-> "test", canEdit |-> FALSE,
    noteGroupPermission |-> createNoteGroupPermission("test", FALSE)],
   [note |-> [createNote(Null) EXCEPT
                !.groupPermissions = <<createNoteGroupPermission("test", FALSE)>>],
    group |-> "test", canEdit |-> TRUE,
    noteGroupPermission |-> createNoteGroupPermission("test", TRUE)],
   [note |-> [createNote(Null) EXCEPT
                !.groupPermissions = <<createNoteGroupPermission("test", TRUE)>>],
    group |-> "test", canEdit |-> FALSE,
    noteGroupPermission |-> createNoteGroupPermission("test", FALSE)]}

\* mutant: the suite would expect the read-only grant to stay
removeUserPermissionWorks_stays ==
  {[note |-> [createNote(Null) EXCEPT
                !.userPermissions = <<createUserPermission("test", TRUE)>>],
    user |-> "test", length |-> Len(<<>>)],
   [note |-> [createNote(Null) EXCEPT
                !.userPermissions = <<createUserPermission("test", FALSE)>>],
    user |-> "test", length |-> Len(<<createUserPermission("test", FALSE)>>)]}

\* 'removeUserPermission works': the note and user of each test and the number
\* of user grants it expects in the result
removeUserPermissionWorks ==
  {[note |-> [createNote(Null) EXCEPT
                !.userPermissions = <<createUserPermission("test", TRUE)>>],
    user |-> "test", length |-> Len(<<>>)],
   [note |-> [createNote(Null) EXCEPT
                !.userPermissions = <<createUserPermission("test", FALSE)>>],
    user |-> "test", length |-> Len(<<>>)]}

\* 'removeGroupPermission works': the note and group of each test and the
\* number of group grants it expects in the result
removeGroupPermissionWorks ==
  {[note |-> [createNote(Null) EXCEPT
                !.groupPermissions = <<createNoteGroupPermission("test", TRUE)>>],
    group |-> "test", length |-> Len(<<>>)],
   [note |-> [createNote(Null) EXCEPT
                !.groupPermissions = <<createNoteGroupPermission("test", FALSE)>>],
    group |-> "test", length |-> Len(<<>>)]}

checkArrayForDuplicates(array) ==
  \E i, j \in DOMAIN array : i # j /\ array[i] = array[j]

usernamesOf(newPermissions) ==
  [i \in DOMAIN newPermissions.sharedToUsers |->
     newPermissions.sharedToUsers[i].username]

groupNamesOf(newPermissions) ==
  [i \in DOMAIN newPermissions.sharedToGroups |->
     newPermissions.sharedToGroups[i].groupName]

updateIsInconsistent(newPermissions) ==
  \/ checkArrayForDuplicates(usernamesOf(newPermissions))
  \/ checkArrayForDuplicates(groupNamesOf(newPermissions))

\* the note with its grants replaced by those of the update
updateNotePermissions(n, newPermissions) ==
  [n EXCEPT
     !.userPermissions =
        [i \in DOMAIN newPermissions.sharedToUsers |->
           createUserPermission(newPermissions.sharedToUsers[i].username,
                                newPermissions.sharedToUsers[i].canEdit)],
     !.groupPermissions =
        [i \in DOMAIN newPermissions.sharedToGroups |->
           createNoteGroupPermission(newPermissions.sharedToGroups[i].groupName,
                                     newPermissions.sharedToGroups[i].canEdit)]]

setUserPermission(n, permissionUser, canEdit) ==
  IF HasUserGrant(permissionUser, n)
  THEN [n EXCEPT !.userPermissions =
          [i \in DOMAIN n.userPermissions |->
             IF n.userPermissions[i].user = permissionUser
             THEN [n.userPermissions[i] EXCEPT !.canEdit = canEdit]
             ELSE n.userPermissions[i]]]
  ELSE [n EXCEPT !.userPermissions =
          Append(n.userPermissions, createUserPermission(permissionUser, canEdit))]

removeUserPermission(n, permissionUser) ==
  [n EXCEPT !.userPermissions =
     SelectSeq(n.userPermissions, LAMBDA p : p.user # permissionUser)]

setGroupPermission(n, permissionGroup, canEdit) ==
  IF GrantsOf(n, permissionGroup) # {}
  THEN [n EXCEPT !.groupPermissions =
          [i \in DOMAIN n.groupPermissions |->
             IF n.groupPermissions[i].group = permissionGroup
             THEN [n.groupPermissions[i] EXCEPT !.canEdit = canEdit]
             ELSE n.groupPermissions[i]]]
  ELSE [n EXCEPT !.groupPermissions =
          Append(n.groupPermissions,
                 createNoteGroupPermission(permissionGroup, canEdit))]

removeGroupPermission(n, permissionGroup) ==
  [n EXCEPT !.groupPermissions =
     SelectSeq(n.groupPermissions, LAMBDA p : p.group # permissionGroup)]

\* the updates a caller can send: at most MaxUpdate entries in all
UserUpdates == [username : Usernames, canEdit : BOOLEAN]
GroupUpdates == [groupName : GroupNames, canEdit : BOOLEAN]
PermissionUpdates ==
  {u \in [sharedToUsers : SeqsUpTo(UserUpdates, MaxUpdate),
          sharedToGroups : SeqsUpTo(GroupUpdates, MaxUpdate)] :
     Len(u.sharedToUsers) + Len(u.sharedToGroups) <= MaxUpdate}

\* the notes of the suite: Note.create(user) of the update tests and
\* Note.create(null) of the set and remove tests
InitPerm ==
  /\ InitAuthVars
  /\ InitHistVars
  /\ InitGistVars
  /\ note \in {createNote(userPermissionUpdate.username), createNote(Null)}
  /\ noteConfig \in {c \in Configs : c.guestAccess = "deny" /\ c.everyone = "none"}
  /\ call = NoCall
  /\ events = <<>>

UpdateNotePermissions(newPermissions) ==
  /\ call = NoCall
  /\ IF updateIsInconsistent(newPermissions)
     THEN /\ call' = [op |-> "updateNotePermissions", user |-> Null, note |-> note,
                      args |-> newPermissions,
                      result |-> PermissionsUpdateInconsistentError]
          /\ UNCHANGED <<note, events>>
     ELSE /\ note' = updateNotePermissions(note, newPermissions)
          /\ events' = Append(events, PERMISSION_CHANGE)
          /\ call' = [op |-> "updateNotePermissions", user |-> Null, note |-> note,
                      args |-> newPermissions, result |-> "saved"]
  /\ UNCHANGED <<noteConfig, authVars, histVars, gistVars>>

SetUserPermission(permissionUser, canEdit) ==
  /\ call = NoCall
  /\ note' = setUserPermission(note, permissionUser, canEdit)
  /\ events' = Append(events, PERMISSION_CHANGE)
  /\ call' = [op |-> "setUserPermission", user |-> Null, note |-> note,
              args |-> <<permissionUser, canEdit>>, result |-> "saved"]
  /\ UNCHANGED <<noteConfig, authVars, histVars, gistVars>>

RemoveUserPermission(permissionUser) ==
  /\ call = NoCall
  /\ note' = removeUserPermission(note, permissionUser)
  /\ events' = Append(events, PERMISSION_CHANGE)
  /\ call' = [op |-> "removeUserPermission", user |-> Null, note |-> note,
              args |-> <<permissionUser>>, result |-> "saved"]
  /\ UNCHANGED <<noteConfig, authVars, histVars, gistVars>>

SetGroupPermission(permissionGroup, canEdit) ==
  /\ call = NoCall
  /\ note' = setGroupPermission(note, permissionGroup, canEdit)
  /\ events' = Append(events, PERMISSION_CHANGE)
  /\ call' = [op |-> "setGroupPermission", user |-> Null, note |-> note,
              args |-> <<permissionGroup, canEdit>>, result |-> "saved"]
  /\ UNCHANGED <<noteConfig, authVars, histVars, gistVars>>

RemoveGroupPermission(permissionGroup) ==
  /\ call = NoCall
  /\ note' = removeGroupPermission(note, permissionGroup)
  /\ events' = Append(events, PERMISSION_CHANGE)
  /\ call' = [op |-> "removeGroupPermission", user |-> Null, note |-> note,
              args |-> <<permissionGroup>>, result |-> "saved"]
  /\ UNCHANGED <<noteConfig, authVars, histVars, gistVars>>

\* afterEach: the call is over and jest.clearAllMocks() forgets the emitted
\* events; the note stays as the call left it
afterEach ==
  /\ call # NoCall
  /\ call' = NoCall
  /\ events' = <<>>
  /\ UNCHANGED <<note, noteConfig, authVars, histVars, gistVars>>

NextPerm ==
  \/ \E newPermissions \in PermissionUpdates : UpdateNotePermissions(newPermissions)
  \/ \E u \in Usernames, canEdit \in BOOLEAN : SetUserPermission(u, canEdit)
  \/ \E u \in Usernames : RemoveUserPermission(u)
  \/ \E g \in GroupNames, canEdit \in BOOLEAN : SetGroupPermission(g, canEdit)
  \/ \E g \in GroupNames : RemoveGroupPermission(g)
  \/ afterEach

SpecPerm == InitPerm /\ [][NextPerm]_vars

---------------------------------------------------------------------------
(* Claims about changing the grants, under SpecPerm *)

found(expected, saved) ==
  IF expected = <<>> THEN saved = <<>>
  ELSE saved # <<>> /\ saved[1] = expected[1]

\* C12: a successful updateNotePermissions(note, update) replaces the note's
\* grants by the update: the user grants are exactly the entries of
\* sharedToUsers and the group grants exactly those of sharedToGroups, each with
\* the canEdit of the update; a grant the note had for the same user or group is
\* overwritten, not duplicated; empty lists leave no grants; and the saved note
\* is what each 'updateNotePermissions works' test expects.
C12_UpdateReplaces ==
  (call.op = "updateNotePermissions" /\ call.result = "saved") =>
    /\ DOMAIN note.userPermissions = DOMAIN call.args.sharedToUsers
    /\ \A i \in DOMAIN note.userPermissions :
         /\ note.userPermissions[i].user = call.args.sharedToUsers[i].username
         /\ note.userPermissions[i].canEdit = call.args.sharedToUsers[i].canEdit
    /\ DOMAIN note.groupPermissions = DOMAIN call.args.sharedToGroups
    /\ \A i \in DOMAIN note.groupPermissions :
         /\ note.groupPermissions[i].group = call.args.sharedToGroups[i].groupName
         /\ note.groupPermissions[i].canEdit = call.args.sharedToGroups[i].canEdit
    /\ \A i, j \in DOMAIN note.userPermissions :
         note.userPermissions[i].user = note.userPermissions[j].user => i = j
    /\ \A i, j \in DOMAIN note.groupPermissions :
         note.groupPermissions[i].group = note.groupPermissions[j].group => i = j
    /\ \A e \in updateNotePermissionsWorks :
         (/\ call.note.userPermissions \in e.userPermissions
          /\ call.note.groupPermissions \in e.groupPermissions
          /\ call.args.sharedToUsers = e.sharedToUsers
          /\ call.args.sharedToGroups = e.sharedToGroups)
         => /\ found(e.savedUsers, note.userPermissions)
            /\ found(e.savedGroups, note.groupPermissions)

C12_Witness ==
  /\ call.op = "updateNotePermissions" /\ call.result = "saved"
  /\ call.note.userPermissions =
       <<createUserPermission(userPermissionUpdate.username, FALSE)>>
  /\ call.note.groupPermissions =
       <<createNoteGroupPermission(groupPermissionUpdate.groupName, TRUE)>>
  /\ call.args = [sharedToUsers |-> <<userPermissionUpdate>>,
                  sharedToGroups |-> <<groupPermissionUpdate>>]
  /\ note.userPermissions =
       <<createUserPermission(userPermissionUpdate.username, TRUE)>>
  /\ note.groupPermissions =
       <<createNoteGroupPermission(groupPermissionUpdate.groupName, FALSE)>>

\* the operations that change the grants of a note
MutatingOperations ==
  {"updateNotePermissions", "setUserPermission", "removeUserPermission",
   "setGroupPermission", "removeGroupPermission"}

\* C13: every successful call of updateNotePermissions, setUserPermission,
\* removeUserPermission, setGroupPermission or removeGroupPermission emits a
\* PERMISSION_CHANGE event, and no such event has been emitted before the call
\* starts; the five 'emits PERMISSION_CHANGE event' tests find their event.
C13_EmitsPermissionChange ==
  [][(/\ call' # call
      /\ call'.op \in MutatingOperations
      /\ call'.result = "saved")
     => /\ \A i \in DOMAIN events : events[i] # PERMISSION_CHANGE
        /\ \E i \in DOMAIN events' : events'[i] = PERMISSION_CHANGE
        /\ \A e \in emitsPermissionChange :
             (call'.op = e.op /\ call'.note = e.note /\ call'.args = e.args)
             => events = <<>> /\ events' # <<>> /\ events'[1] = e.event]_vars

C13_Witness ==
  /\ call.op = "removeUserPermission" /\ call.result = "saved"
  /\ call.note = [createNote(Null) EXCEPT
                    !.userPermissions = <<createUserPermission("test", TRUE)>>]
  /\ call.args = <<"test">>
  /\ events = <<PERMISSION_CHANGE>>

\* C14: setUserPermission(note, user, canEdit) is an upsert: afterwards the
\* note has exactly one user grant for that user and its canEdit is the
\* argument, whether the user had no grant before or one with the opposite
\* canEdit; the result is what each 'setUserPermission works' test expects.
C14_SetUserUpserts ==
  call.op = "setUserPermission" =>
    /\ Cardinality({i \in DOMAIN note.userPermissions :
                      note.userPermissions[i].user = call.args[1]}) = 1
    /\ \A i \in DOMAIN note.userPermissions :
         note.userPermissions[i].user = call.args[1]
           => note.userPermissions[i].canEdit = call.args[2]
    /\ \A e \in setUserPermissionWorks :
         (call.note = e.note /\ call.args = <<e.user, e.canEdit>>)
         => /\ note.userPermissions # <<>>
            /\ note.userPermissions[1] = e.noteUserPermission

C14_Witness ==
  /\ call.op = "setUserPermission" /\ call.args = <<"test", TRUE>>
  /\ call.note = [createNote(Null) EXCEPT
                    !.userPermissions = <<createUserPermission("test", FALSE)>>]
  /\ note.userPermissions = <<createUserPermission("test", TRUE)>>

\* C15: setGroupPermission(note, group, canEdit) is an upsert: afterwards the
\* note has exactly one group grant for that group and its canEdit is the
\* argument, whether the group had no grant before or one with the opposite
\* canEdit; the result is what each 'setGroupPermission works' test expects.
C15_SetGroupUpserts ==
  call.op = "setGroupPermission" =>
    /\ Cardinality({i \in DOMAIN note.groupPermissions :
                      note.groupPermissions[i].group = call.args[1]}) = 1
    /\ \A i \in DOMAIN note.groupPermissions :
         note.groupPermissions[i].group = call.args[1]
           => note.groupPermissions[i].canEdit = call.args[2]
    /\ \A e \in setGroupPermissionWorks :
         (call.note = e.note /\ call.args = <<e.group, e.canEdit>>)
         => /\ note.groupPermissions # <<>>
            /\ note.groupPermissions[1] = e.noteGroupPermission

C15_Witness ==
  /\ call.op = "setGroupPermission" /\ call.args = <<"test", FALSE>>
  /\ call.note = [createNote(Null) EXCEPT
                    !.groupPermissions = <<createNoteGroupPermission("test", TRUE)>>]
  /\ note.groupPermissions = <<createNoteGroupPermission("test", FALSE)>>

\* C16: removeUserPermission(note, user) leaves the note without any grant for
\* that user, and removeGroupPermission(note, group) without any for that
\* group, whatever the canEdit of the removed grant was; the results are what
\* the 'removeUserPermission works' and 'removeGroupPermission works' tests
\* expect.
C16_RemoveLeavesNone ==
  /\ call.op = "removeUserPermission" =>
       /\ \A i \in DOMAIN note.userPermissions :
            note.userPermissions[i].user # call.args[1]
       /\ \A e \in removeUserPermissionWorks :
            (call.note = e.note /\ call.args = <<e.user>>)
            => Len(note.userPermissions) = e.length
  /\ call.op = "removeGroupPermission" =>
       /\ \A i \in DOMAIN note.groupPermissions :
            note.groupPermissions[i].group # call.args[1]
       /\ \A e \in removeGroupPermissionWorks :
            (call.note = e.note /\ call.args = <<e.group>>)
            => Len(note.groupPermissions) = e.length

C16_Witness ==
  /\ call.op = "removeUserPermission" /\ call.args = <<"test">>
  /\ call.note = [createNote(Null) EXCEPT
                    !.userPermissions = <<createUserPermission("test", FALSE)>>]
  /\ note.userPermissions = <<>>

---------------------------------------------------------------------------
(* The authorship state field of the editor.                               *)
(* A DecorationSet is a RangeSet: a list of layers, each a list of marks   *)
(* sorted by position that do not overlap; a mark that overlaps the last   *)
(* one added to a layer goes to the next layer.  Marks are not inclusive:  *)
(* their start maps forward and their end backward through a change.       *)

\* the users that write
UserIds == {"a", "b"}

\* createMark: the range of a mark; Decoration.mark(..).range refuses from >= to
createMark(from, to, userId) == [from |-> from, to |-> to, userId |-> userId]
markThrows(mark) == mark.from >= mark.to

\* ChangeDesc.mapPos for the replacement of [changes.from, changes.to) by
\* changes.insert characters
mapPos(pos, assoc, changes) ==
  IF pos < changes.from THEN pos
  ELSE IF \/ changes.to > pos
          \/ (changes.to = pos /\ assoc < 0 /\ changes.to = changes.from)
       THEN IF pos = changes.from \/ assoc < 0
            THEN changes.from
            ELSE changes.from + changes.insert
       ELSE pos - (changes.to - changes.from) + changes.insert

\* mutant: the end of a mark maps forward, as the end of an inclusive range
mapMark_inclusiveEnd(mark, changes) ==
  [mark EXCEPT !.from = mapPos(mark.from, 1, changes),
               !.to = mapPos(mark.to, 1, changes)]

mapMark(mark, changes) ==
  [mark EXCEPT !.from = mapPos(mark.from, 1, changes),
               !.to = mapPos(mark.to, -1, changes)]

dropEmptyLayers(layers) == SelectSeq(layers, LAMBDA layer : layer # <<>>)

\* authorshipDecorations.map(transaction.changes): a mark that collapses is dropped
mapDecorations(decorations, changes) ==
  dropEmptyLayers(
    [l \in DOMAIN decorations |->
       SelectSeq([i \in DOMAIN decorations[l] |-> mapMark(decorations[l][i], changes)],
                 LAMBDA mark : mark.from < mark.to)])

\* the authorshipsUpdateEffect values of a transaction
isAuthorshipsUpdateEffect(effect) == effect.is = "authorshipsUpdateEffect"

\* the places of the marks in the order update() hands them to the filter:
\* layer by layer, each layer by position
RECURSIVE marksInOrder(_, _)
marksInOrder(decorations, l) ==
  IF l > Len(decorations) THEN <<>>
  ELSE [i \in DOMAIN decorations[l] |-> [layer |-> l, index |-> i]]
         \o marksInOrder(decorations, l + 1)

\* filterFrom/filterTo: the filter is called for the marks that touch the range
inFilterRange(mark, effect) ==
  ~(effect.from > mark.to \/ effect.to < mark.from)

\* the first mark the filter is called for: the only one it handles
RECURSIVE firstMetFrom(_, _, _, _)
firstMetFrom(places, k, decorations, effect) ==
  IF k > Len(places) THEN [layer |-> 0, index |-> 0]
  ELSE IF inFilterRange(decorations[places[k].layer][places[k].index], effect)
       THEN places[k]
       ELSE firstMetFrom(places, k + 1, decorations, effect)

firstMet(decorations, effect) ==
  firstMetFrom(marksInOrder(decorations, 1), 1, decorations, effect)

\* mutant: an own mark that the update touches is recreated as it was
filterAdds_notExtended(mark, effect) ==
  IF mark.userId = effect.userId
  THEN <<createMark(mark.from, mark.to, mark.userId)>>
  ELSE (IF mark.from < effect.from
        THEN <<createMark(mark.from, effect.from, mark.userId)>> ELSE <<>>)
       \o <<createMark(effect.from, effect.to, effect.userId)>>
       \o (IF effect.to < mark.to
           THEN <<createMark(effect.to, mark.to, mark.userId)>> ELSE <<>>)

\* mutant: an update in own text adds a mark for the update next to the own one
filterAdds_second(mark, effect) ==
  IF mark.userId = effect.userId
  THEN IF mark.from = effect.to \/ mark.to = effect.from
       THEN <<createMark(IF mark.from < effect.from THEN mark.from ELSE effect.from,
                         IF mark.to > effect.to THEN mark.to ELSE effect.to,
                         mark.userId)>>
       ELSE IF mark.from <= effect.from
            THEN <<createMark(mark.from, mark.to, mark.userId),
                   createMark(effect.from, effect.to, effect.userId)>>
            ELSE <<createMark(effect.from, effect.to, effect.userId),
                   createMark(mark.from, mark.to, mark.userId)>>
  ELSE (IF mark.from < effect.from
        THEN <<createMark(mark.from, effect.from, mark.userId)>> ELSE <<>>)
       \o <<createMark(effect.from, effect.to, effect.userId)>>
       \o (IF effect.to < mark.to
           THEN <<createMark(effect.to, mark.to, mark.userId)>> ELSE <<>>)

\* what the filter pushes to addedDecorations for the mark it handles
filterAdds(mark, effect) ==
  IF mark.userId = effect.userId
  THEN IF mark.from = effect.to \/ mark.to = effect.from
       THEN <<createMark(IF mark.from < effect.from THEN mark.from ELSE effect.from,
                         IF mark.to > effect.to THEN mark.to ELSE effect.to,
                         mark.userId)>>
       ELSE <<createMark(mark.from, mark.to, mark.userId)>>
  ELSE (IF mark.from < effect.from
        THEN <<createMark(mark.from, effect.from, mark.userId)>> ELSE <<>>)
       \o <<createMark(effect.from, effect.to, effect.userId)>>
       \o (IF effect.to < mark.to
           THEN <<createMark(effect.to, mark.to, mark.userId)>> ELSE <<>>)

\* addedDecorations after the filter and the 'empty decoration set' branch
addedDecorations(decorations, effect) ==
  LET met == firstMet(decorations, effect)
  IN  IF met.layer = 0
      THEN <<createMark(effect.from, effect.to, effect.userId)>>
      ELSE filterAdds(decorations[met.layer][met.index], effect)

removeAt(seq, i) == SubSeq(seq, 1, i - 1) \o SubSeq(seq, i + 1, Len(seq))

\* mutant: the filter drops every mark it is called for, not only the first
filterDecorations_range(decorations, effect) ==
  dropEmptyLayers(
    [l \in DOMAIN decorations |->
       SelectSeq(decorations[l], LAMBDA mark : ~inFilterRange(mark, effect))])

\* update({filter, filterFrom, filterTo}): the handled mark is filtered out
filterDecorations(decorations, effect) ==
  LET met == firstMet(decorations, effect)
  IN  IF met.layer = 0 THEN decorations
      ELSE dropEmptyLayers(
             [decorations EXCEPT ![met.layer] = removeAt(@, met.index)])

\* the merge of update({add}): by position, an added range before a kept one
\* that starts at the same position
RECURSIVE mergeRanges(_, _)
mergeRanges(layer, add) ==
  IF add = <<>> THEN layer
  ELSE IF layer = <<>> THEN add
  ELSE IF layer[1].from - add[1].from >= 0
       THEN <<add[1]>> \o mergeRanges(layer, Tail(add))
       ELSE <<layer[1]>> \o mergeRanges(Tail(layer), add)

\* RangeSetBuilder.addInner over the merged ranges: a range that starts before
\* the end of the last range of the layer spills to the next layer
RECURSIVE buildLayer(_, _, _, _)
buildLayer(ranges, lastTo, kept, spill) ==
  IF ranges = <<>> THEN [kept |-> kept, spill |-> spill]
  ELSE IF ranges[1].from - lastTo < 0
       THEN buildLayer(Tail(ranges), lastTo, kept, Append(spill, ranges[1]))
       ELSE buildLayer(Tail(ranges), ranges[1].to, Append(kept, ranges[1]), spill)

\* update({add}) and RangeSet.of
RECURSIVE addDecorations(_, _)
addDecorations(decorations, add) ==
  IF add = <<>> THEN decorations
  ELSE LET layer == IF decorations = <<>> THEN <<>> ELSE decorations[1]
           rest == IF decorations = <<>> THEN <<>> ELSE Tail(decorations)
           built == buildLayer(mergeRanges(layer, add), -1, <<>>, <<>>)
       IN  <<built.kept>> \o addDecorations(rest, built.spill)

\* one turn of effects.forEach: the decoration set after the effect, and
\* whether a createMark of the turn throws
applyEffect(decorations, effect) ==
  LET added == addedDecorations(decorations, effect)
  IN  [set |-> addDecorations(filterDecorations(decorations, effect), added),
       threw |-> \E i \in DOMAIN added : markThrows(added[i])]

\* effects.forEach: the decoration sets after each effect, up to a throw
RECURSIVE forEachEffect(_, _, _)
forEachEffect(decorations, effects, steps) ==
  IF effects = <<>> THEN [steps |-> steps, threw |-> FALSE]
  ELSE LET turn == applyEffect(decorations, effects[1])
       IN  IF turn.threw THEN [steps |-> steps, threw |-> TRUE]
           ELSE forEachEffect(turn.set, Tail(effects), Append(steps, turn.set))

\* authorshipsStateField.update: the mapped set, the set after each
\* authorshipsUpdateEffect, and the set returned
update(decorations, transaction) ==
  LET mapped == mapDecorations(decorations, transaction.changes)
      effects == SelectSeq(transaction.effects, isAuthorshipsUpdateEffect)
      each == forEachEffect(mapped, effects, <<>>)
  IN  [mapped |-> mapped,
       effects |-> effects,
       steps |-> each.steps,
       threw |-> each.threw,
       returns |-> IF each.steps = <<>> THEN mapped
                   ELSE each.steps[Len(each.steps)]]

marksOf(decorations) ==
  UNION {{[layer |-> l, index |-> i] : i \in DOMAIN decorations[l]} :
           l \in DOMAIN decorations}
markAt(decorations, place) == decorations[place.layer][place.index]
RECURSIVE size(_)
size(decorations) ==
  IF decorations = <<>> THEN 0 ELSE Len(decorations[1]) + size(Tail(decorations))

noChanges == [from |-> 0, to |-> 0, insert |-> 0]

\* the text changes of a transaction: [from, to) replaced by insert characters
Changes(length) ==
  {c \in [from : 0..length, to : 0..length, insert : 0..MaxDoc] :
     /\ c.from <= c.to
     /\ c.from < c.to \/ c.insert > 0
     /\ length - (c.to - c.from) + c.insert <= MaxDoc}

newLength(length, changes) == length - (changes.to - changes.from) + changes.insert

authorshipUpdate(from, to, userId, localUpdate) ==
  [is |-> "authorshipsUpdateEffect", from |-> from, to |-> to,
   userId |-> userId, localUpdate |-> localUpdate]

\* an effect of another extension
otherEffect ==
  [is |-> "other", from |-> 0, to |-> 0, userId |-> "", localUpdate |-> FALSE]

\* the ranges of a document: from <= to
Ranges(length) == {r \in (0..length) \X (0..length) : r[1] <= r[2]}

\* a transaction is applied to the state; when the field's update throws, the
\* transaction fails and the state stays as it was
Transaction(changes, effects) ==
  \E result \in {update(authorshipDecorations, [changes |-> changes, effects |-> effects])} :
      /\ size(result.returns) <= MaxMarks
      /\ lastTransaction' =
           [dispatched |-> TRUE,
            decorations |-> authorshipDecorations,
            changes |-> changes,
            effects |-> [i \in DOMAIN result.effects |->
                           [from |-> result.effects[i].from,
                            to |-> result.effects[i].to,
                            userId |-> result.effects[i].userId]],
            mapped |-> result.mapped,
            steps |-> result.steps,
            threw |-> result.threw]
      /\ IF result.threw
         THEN UNCHANGED <<docLength, authorshipDecorations>>
         ELSE /\ docLength' = newLength(docLength, changes)
              /\ authorshipDecorations' = result.returns
      /\ UNCHANGED <<permVars, histVars, gistVars>>

\* the editor takes one transaction at a time
idle == ~lastTransaction.dispatched

\* a text change that carries no authorship update
TextChange ==
  /\ idle
  /\ \E changes \in Changes(docLength), effects \in {<<>>, <<otherEffect>>} :
       Transaction(changes, effects)

\* an authorship update that arrives without a text change
AuthorshipUpdate ==
  /\ idle
  /\ \E range \in Ranges(docLength), userId \in UserIds, localUpdate \in BOOLEAN :
       Transaction(noChanges,
                   <<authorshipUpdate(range[1], range[2], userId, localUpdate)>>)

\* a user replaces [from, to) by some text: the update covers the inserted text
Typing ==
  /\ idle
  /\ \E changes \in Changes(docLength), userId \in UserIds :
       Transaction(changes,
                   <<authorshipUpdate(changes.from, changes.from + changes.insert,
                                      userId, TRUE)>>)

\* two authorship updates in one transaction, the second behind the first
TwoUpdates ==
  /\ idle
  /\ \E first \in Ranges(docLength), firstUser \in UserIds, secondUser \in UserIds :
       \E second \in Ranges(docLength) :
         /\ first[1] < first[2] /\ first[2] <= second[1] /\ second[1] < second[2]
         /\ Transaction(noChanges,
                        <<authorshipUpdate(first[1], first[2], firstUser, FALSE),
                          authorshipUpdate(second[1], second[2], secondUser, FALSE)>>)

\* the editor is ready for the next transaction
Settle ==
  /\ lastTransaction.dispatched
  /\ lastTransaction' = NoTransaction
  /\ UNCHANGED <<docLength, authorshipDecorations, permVars, histVars, gistVars>>

InitAuth ==
  /\ InitAuthVars
  /\ InitHistVars
  /\ InitGistVars
  /\ note = createNote(Null)
  /\ noteConfig \in {c \in Configs : c.guestAccess = "deny" /\ c.everyone = "none"}
  /\ call = NoCall
  /\ events = <<>>

NextAuth ==
  \/ TextChange
  \/ AuthorshipUpdate
  \/ Typing
  \/ TwoUpdates
  \/ Settle

SpecAuth == InitAuth /\ [][NextAuth]_vars

\* a position is attributed to a user when a mark of the user covers it
covers(mark, pos) == mark.from <= pos /\ pos < mark.to
attributed(decorations, pos, userId) ==
  \E place \in marksOf(decorations) :
    /\ markAt(decorations, place).userId = userId
    /\ covers(markAt(decorations, place), pos)

\* C2: after an authorship update (from, to, userId) has been processed, every
\* position in [from, to) is covered by a mark whose data-user-id is userId,
\* whatever updates came before it.
C2_UpdateAttributed ==
  (lastTransaction.dispatched /\ ~lastTransaction.threw) =>
    \A i \in DOMAIN lastTransaction.effects :
      \A pos \in lastTransaction.effects[i].from .. lastTransaction.effects[i].to - 1 :
        attributed(lastTransaction.steps[i], pos, lastTransaction.effects[i].userId)

---------------------------------------------------------------------------
(* Claims about single authorship updates, under SpecAuth.  The updates of   *)
(* the last transaction are read from lastTransaction: the update that threw *)
(* is the one after the last step.                                           *)

\* the decoration set the i-th update of the last transaction started from
before(i) ==
  IF i = 1 THEN lastTransaction.mapped ELSE lastTransaction.steps[i - 1]

\* the updates the last transaction came to, and those it went through with
reached == {i \in DOMAIN lastTransaction.effects : i <= Len(lastTransaction.steps) + 1}
processed(i) == i \in DOMAIN lastTransaction.steps

\* how often a mark is in a decoration set
count(decorations, mark) ==
  Cardinality({place \in marksOf(decorations) : markAt(decorations, place) = mark})
marks(decorations) == {markAt(decorations, place) : place \in marksOf(decorations)}

\* the decoration set is the old one with one mark replaced by others
replaced(old, new, mark, pieces) ==
  \A m \in marks(old) \cup marks(new) \cup pieces :
    count(new, m) = count(old, m) - (IF m = mark THEN 1 ELSE 0)
                                  + (IF m \in pieces THEN 1 ELSE 0)

\* the mark the i-th update hits: the first one the filter is called for
hits(i) == firstMet(before(i), lastTransaction.effects[i])
hit(i) == markAt(before(i), hits(i))

\* C17: when an authorship update of user U hits a mark of another user V, the
\* mark is split: it is replaced by a mark of V over [decorationFrom,
\* effectFrom) if decorationFrom < effectFrom, a mark of U over [effectFrom,
\* effectTo), and a mark of V over [effectTo, decorationTo) if effectTo <
\* decorationTo; no part of V's mark outside the update loses its attribution.
C17_Split ==
  lastTransaction.dispatched =>
    \A i \in reached :
      LET effect == lastTransaction.effects[i]
      IN  (hits(i).layer # 0 /\ hit(i).userId # effect.userId) =>
            /\ processed(i)
            /\ replaced(before(i), lastTransaction.steps[i], hit(i),
                 (IF hit(i).from < effect.from
                  THEN {createMark(hit(i).from, effect.from, hit(i).userId)} ELSE {})
                 \cup {createMark(effect.from, effect.to, effect.userId)}
                 \cup (IF effect.to < hit(i).to
                       THEN {createMark(effect.to, hit(i).to, hit(i).userId)} ELSE {}))
            /\ \A pos \in hit(i).from .. hit(i).to - 1 :
                 (pos < effect.from \/ pos >= effect.to)
                   => attributed(lastTransaction.steps[i], pos, hit(i).userId)

\* the update touches the mark it hits without overlapping it
touches(mark, effect) == mark.from = effect.to \/ mark.to = effect.from

nested(decorations, userId) ==
  {pair \in marksOf(decorations) \X marksOf(decorations) :
     /\ pair[1] # pair[2]
     /\ markAt(decorations, pair[1]).userId = userId
     /\ markAt(decorations, pair[2]).userId = userId
     /\ markAt(decorations, pair[2]).from <= markAt(decorations, pair[1]).from
     /\ markAt(decorations, pair[1]).to <= markAt(decorations, pair[2]).to}

C20_AddsOne ==
  /\ authorshipDecorations = none
  /\ [](lastTransaction.dispatched =>
          \A i \in reached :
            LET effect == lastTransaction.effects[i]
            IN  hits(i).layer = 0 =>
                  /\ processed(i)
                  /\ \A m \in marks(before(i)) \cup marks(lastTransaction.steps[i]) :
                       count(lastTransaction.steps[i], m) =
                         count(before(i), m)
                           + (IF m = createMark(effect.from, effect.to, effect.userId)
                              THEN 1 ELSE 0)
                  /\ size(lastTransaction.steps[i]) = size(before(i)) + 1)

\* C21: for one authorship update, only the first existing mark met in the
\* range [effectFrom, effectTo] is removed and rewritten; every further mark in
\* that range and every mark outside it is kept unchanged (and an update that
\* throws leaves the whole decoration set as it was).
C21_OnlyFirst ==
  /\ [](lastTransaction.dispatched =>
          \A i \in reached :
            processed(i) =>
              \A m \in marks(before(i)) :
                count(lastTransaction.steps[i], m) >=
                  count(before(i), m)
                    - (IF hits(i).layer # 0 /\ m = hit(i) THEN 1 ELSE 0))
  /\ [][lastTransaction'.threw => authorshipDecorations' = authorshipDecorations]_vars

C21_Witness ==
  /\ lastTransaction.dispatched /\ ~lastTransaction.threw
  /\ lastTransaction.mapped = <<<<createMark(0, 1, "a"), createMark(2, 3, "a")>>>>
  /\ lastTransaction.effects = <<[from |-> 0, to |-> 3, userId |-> "b"]>>
  /\ authorshipDecorations = <<<<createMark(0, 3, "b")>>, <<createMark(2, 3, "a")>>>>

\* the marks of a decoration set, layer by layer
inOrder(decorations) ==
  [k \in DOMAIN marksInOrder(decorations, 1) |->
     markAt(decorations, marksInOrder(decorations, 1)[k])]

\* the last transaction carried no authorshipsUpdateEffect
onlyChanges == lastTransaction.dispatched /\ lastTransaction.effects = <<>>

\* C22: a transaction that carries no authorshipsUpdateEffect changes the
\* authorship decoration set only by mapping the positions of the existing
\* marks through the transaction's text changes: no mark is added, removed or
\* re-attributed to another user.
C22_OnlyMapped ==
  onlyChanges =>
    /\ ~lastTransaction.threw
    /\ DOMAIN inOrder(authorshipDecorations) = DOMAIN inOrder(lastTransaction.decorations)
    /\ \A k \in DOMAIN inOrder(authorshipDecorations) :
         inOrder(authorshipDecorations)[k].userId =
           inOrder(lastTransaction.decorations)[k].userId

\* the change deletes all the text of the mark
deleted(mark, changes) == changes.from <= mark.from /\ mark.to <= changes.to

\* the mark as it is after a change that lies wholly behind it or before it
shifted(mark, changes) ==
  IF mark.to <= changes.from /\ (mark.to < changes.from \/ changes.from = changes.to)
  THEN mark
  ELSE [mark EXCEPT !.from = @ - (changes.to - changes.from) + changes.insert,
                    !.to = @ - (changes.to - changes.from) + changes.insert]
apart(mark, changes) ==
  \/ mark.to < changes.from
  \/ mark.to = changes.from /\ changes.from = changes.to
  \/ changes.to < mark.from
  \/ changes.to = mark.from /\ changes.from = changes.to

\* C22, amended: a transaction that carries no authorshipsUpdateEffect changes
\* the authorship decoration set only by mapping the existing marks through the
\* text changes: no mark is added or re-attributed to another user, a mark the
\* change does not touch keeps its text, and a mark is removed only when the
\* change deletes all of its text.
C22_MappedOrDeleted ==
  onlyChanges =>
    /\ ~lastTransaction.threw
    /\ \E kept \in SUBSET DOMAIN inOrder(lastTransaction.decorations) :
         LET old == inOrder(lastTransaction.decorations)
             new == inOrder(authorshipDecorations)
             place(k) == Cardinality({j \in kept : j <= k})
         IN  /\ Len(new) = Cardinality(kept)
             /\ \A k \in kept :
                  /\ new[place(k)].userId = old[k].userId
                  /\ new[place(k)].from < new[place(k)].to
                  /\ new[place(k)].to <= docLength
                  /\ apart(old[k], lastTransaction.changes)
                       => new[place(k)] = shifted(old[k], lastTransaction.changes)
             /\ \A k \in DOMAIN old \ kept : deleted(old[k], lastTransaction.changes)

C22_Witness ==
  /\ onlyChanges
  /\ lastTransaction.decorations = <<<<createMark(0, 1, "a"), createMark(1, 2, "b")>>>>
  /\ lastTransaction.changes = [from |-> 0, to |-> 1, insert |-> 0]
  /\ authorshipDecorations = <<<<createMark(0, 1, "b")>>>>

\* the marks of the authorship decoration set
allMarks == inOrder(authorshipDecorations)

\* C26: after any sequence of transactions with authorship updates no two
\* marks of the authorship decoration set overlap: every text position is
\* covered by at most one mark, also when one update's range spans several
\* existing marks.
C26_NoOverlap ==
  \A j, k \in DOMAIN allMarks :
    j # k => allMarks[j].to <= allMarks[k].from \/ allMarks[k].to <= allMarks[j].from

\* C27: after any sequence of authorship updates no two marks with the same
\* data-user-id touch each other, one ending where the other starts, also when
\* an update of the user fills the gap between two of the user's own marks.
C27_NoTouching ==
  \A j, k \in DOMAIN allMarks :
    j # k /\ allMarks[j].userId = allMarks[k].userId
      => allMarks[j].to # allMarks[k].from

\* C28: the authorship state field never creates an empty mark: for every
\* authorship update with from <= to, also with from = to, every mark passed to
\* createMark and every mark in the resulting decoration set has from < to.
C28_NoEmptyMark ==
  /\ \A k \in DOMAIN allMarks : allMarks[k].from < allMarks[k].to
  /\ lastTransaction.dispatched =>
       \A i \in reached :
         LET added == addedDecorations(before(i), lastTransaction.effects[i])
         IN  \A k \in DOMAIN added : added[k].from < added[k].to

---------------------------------------------------------------------------
(* The history slice *)

\* the longest history list
MaxEntries == 3

NoteIds == {"n1", "n2"}
Titles == {"t1", "t2"}

\* a history entry: the note's identifier and what is shown of the note
HistoryEntries == [identifier : NoteIds, title : Titles]

\* HistoryState: a list of entries
HistoryStates == SeqsUpTo(HistoryEntries, MaxEntries)

\* Array.prototype.filter
RECURSIVE filter(_, _)
filter(state, keep) ==
  IF state = <<>> THEN <<>>
  ELSE IF Head(state) \in keep
       THEN <<Head(state)>> \o filter(Tail(state), keep)
       ELSE filter(Tail(state), keep)

\* the entries with (entry) => entry.identifier !== noteId
others(noteId) == {entry \in HistoryEntries : entry.identifier # noteId}

\* mutant: only the first entry of the note is taken out
RECURSIVE filter_first(_, _)
filter_first(state, keep) ==
  IF state = <<>> THEN <<>>
  ELSE IF Head(state) \in keep
       THEN <<Head(state)>> \o filter_first(Tail(state), keep)
       ELSE Tail(state)

setEntries(state, payload) == payload

\* mutant: the reducer takes out the first entry of the note only
updateEntry_first(state, payload) ==
  filter_first(state, others(payload.noteId)) \o <<payload.newEntry>>

updateEntry(state, payload) ==
  filter(state, others(payload.noteId)) \o <<payload.newEntry>>

\* mutant: the reducer takes out the first entry of the note only
removeEntry_first(state, payload) == filter_first(state, others(payload.noteId))

removeEntry(state, payload) == filter(state, others(payload.noteId))

\* one action at a time: the reducer handles it and its result is looked at
noAction == lastAction = NoAction

SetEntries ==
  /\ noAction
  /\ \E payload \in HistoryStates :
       /\ history' = setEntries(history, payload)
       /\ lastAction' = [type |-> "setEntries", payload |-> payload, state |-> history]
  /\ UNCHANGED <<permVars, authVars, gistVars>>

UpdateEntry ==
  /\ noAction
  /\ \E noteId \in NoteIds, newEntry \in HistoryEntries :
       \E payload \in {[noteId |-> noteId, newEntry |-> newEntry]} :
         /\ Len(updateEntry(history, payload)) <= MaxEntries
         /\ history' = updateEntry(history, payload)
         /\ lastAction' = [type |-> "updateEntry", payload |-> payload, state |-> history]
  /\ UNCHANGED <<permVars, authVars, gistVars>>

RemoveEntry ==
  /\ noAction
  /\ \E noteId \in NoteIds :
       \E payload \in {[noteId |-> noteId]} :
         /\ history' = removeEntry(history, payload)
         /\ lastAction' = [type |-> "removeEntry", payload |-> payload, state |-> history]
  /\ UNCHANGED <<permVars, authVars, gistVars>>

\* the result was looked at; the next action may be dispatched
Handled ==
  /\ ~noAction
  /\ lastAction' = NoAction
  /\ UNCHANGED <<history, permVars, authVars, gistVars>>

\* the slice starts from the imported initialState, whichever list that is
InitHistory ==
  /\ InitAuthVars
  /\ history \in HistoryStates
  /\ lastAction = NoAction
  /\ InitGistVars
  /\ note = createNote(Null)
  /\ noteConfig \in {c \in Configs : c.guestAccess = "deny" /\ c.everyone = "none"}
  /\ call = NoCall
  /\ events = <<>>

NextHistory ==
  \/ SetEntries
  \/ UpdateEntry
  \/ RemoveEntry
  \/ Handled

SpecHistory == InitHistory /\ [][NextHistory]_vars

\* the places of the list whose entry does not belong to the note
staying(state, noteId) == {k \in DOMAIN state : state[k].identifier # noteId}

\* where the entry at place k is after the entries of the note are gone
placeOf(state, noteId, k) == Cardinality({j \in staying(state, noteId) : j <= k})

\* the list is the old one without the entries of the note, in the old order
without(list, state, noteId) ==
  /\ Len(list) = Cardinality(staying(state, noteId))
  /\ \A k \in staying(state, noteId) : list[placeOf(state, noteId, k)] = state[k]
  /\ \A k \in DOMAIN list : list[k].identifier # noteId

\* C23: updateEntry(noteId, newEntry) removes every entry whose identifier
\* equals noteId and appends newEntry as the last element; all other entries
\* stay in the list, unchanged and in their previous relative order.
C23_UpdateEntry ==
  lastAction.type = "updateEntry" =>
    /\ history # <<>>
    /\ history[Len(history)] = lastAction.payload.newEntry
    /\ Len(history) = Cardinality(staying(lastAction.state, lastAction.payload.noteId)) + 1
    /\ \A k \in staying(lastAction.state, lastAction.payload.noteId) :
         history[placeOf(lastAction.state, lastAction.payload.noteId, k)] = lastAction.state[k]
    /\ \A k \in 1 .. Len(history) - 1 :
         history[k].identifier # lastAction.payload.noteId

C23_Witness ==
  /\ lastAction.type = "updateEntry"
  /\ lastAction.payload.noteId = "n1"
  /\ lastAction.state =
       << [identifier |-> "n1", title |-> "t1"],
          [identifier |-> "n2", title |-> "t1"],
          [identifier |-> "n1", title |-> "t2"] >>
  /\ history =
       << [identifier |-> "n2", title |-> "t1"],
          [identifier |-> "n1", title |-> "t2"] >>

\* C24: removeEntry(noteId) removes every entry whose identifier equals noteId
\* and leaves all other entries unchanged and in order; when no entry has that
\* identifier the list is unchanged, so removing again changes nothing.
C24_RemoveEntry ==
  lastAction.type = "removeEntry" =>
    /\ without(history, lastAction.state, lastAction.payload.noteId)
    /\ (\A k \in DOMAIN lastAction.state :
          lastAction.state[k].identifier # lastAction.payload.noteId)
         => history = lastAction.state
    /\ removeEntry(history, lastAction.payload) = history

C24_Witness ==
  /\ lastAction.type = "removeEntry"
  /\ lastAction.payload.noteId = "n1"
  /\ lastAction.state =
       << [identifier |-> "n1", title |-> "t1"],
          [identifier |-> "n2", title |-> "t2"],
          [identifier |-> "n1", title |-> "t1"] >>
  /\ history = << [identifier |-> "n2", title |-> "t2"] >>

---------------------------------------------------------------------------
(* The modal that exports a note to a GitHub Gist *)

\* how far from the token lengths the lengths of the entered tokens go
MaxOff == 1

\* a string is the sequence of its characters
GITHUB_CLASSIC_TOKEN_LENGTH == 40
GITHUB_CLASSIC_TOKEN_PREFIX == <<"g", "h", "p", "_">>
GITHUB_SCOPED_TOKEN_LENGTH == 93
GITHUB_SCOPED_TOKEN_PREFIX == <<"g", "i", "t", "h", "u", "b", "_", "p", "a", "t", "_">>

\* String.prototype.startsWith
startsWith(string, searchString) ==
  /\ Len(string) >= Len(searchString)
  /\ SubSeq(string, 1, Len(searchString)) = searchString

\* mutant: the length of the token is not looked at
ghTokenFormatValid_prefixOnly(token) ==
  \/ startsWith(token, GITHUB_CLASSIC_TOKEN_PREFIX)
  \/ startsWith(token, GITHUB_SCOPED_TOKEN_PREFIX)

ghTokenFormatValid(token) ==
  \/ startsWith(token, GITHUB_CLASSIC_TOKEN_PREFIX) /\ Len(token) = GITHUB_CLASSIC_TOKEN_LENGTH
  \/ startsWith(token, GITHUB_SCOPED_TOKEN_PREFIX) /\ Len(token) = GITHUB_SCOPED_TOKEN_LENGTH

\* the disabled attribute of the create button
disabled == ~ghTokenFormatValid(ghToken)

\* what the user may have in the token field: a beginning, filled up to a length
Beginnings ==
  { <<>>,
    GITHUB_CLASSIC_TOKEN_PREFIX,
    GITHUB_SCOPED_TOKEN_PREFIX,
    <<"g", "h", "p">>,
    <<"g", "h", "o", "_">>,
    <<"g", "i", "t", "h", "u", "b", "_">>,
    <<"x", "g", "h", "p", "_">> }
TokenLengths ==
  {0} \cup (GITHUB_CLASSIC_TOKEN_LENGTH - MaxOff .. GITHUB_CLASSIC_TOKEN_LENGTH + MaxOff)
      \cup (GITHUB_SCOPED_TOKEN_LENGTH - MaxOff .. GITHUB_SCOPED_TOKEN_LENGTH + MaxOff)
filled(beginning, length) ==
  beginning \o [k \in 1 .. length - Len(beginning) |-> "x"]
Tokens ==
  UNION {{filled(beginning, length) :
            length \in {l \in TokenLengths : l >= Len(beginning)}} :
         beginning \in Beginnings}
    \cup Beginnings
Descriptions == {"", "my note"}

onGhTokenChange ==
  /\ \E value \in Tokens : ghToken' = value
  /\ UNCHANGED <<gistDescription, gistPublic, gistRequest, permVars, authVars, histVars>>

onGistDescriptionChange ==
  /\ \E value \in Descriptions : gistDescription' = value
  /\ UNCHANGED <<ghToken, gistPublic, gistRequest, permVars, authVars, histVars>>

onGistPublicChange ==
  /\ gistPublic' = ~gistPublic
  /\ UNCHANGED <<ghToken, gistDescription, gistRequest, permVars, authVars, histVars>>

\* a click on the create button: a disabled button takes no click
onCreateGist ==
  /\ ~disabled
  /\ gistRequest' =
       [called |-> TRUE, ghToken |-> ghToken, gistDescription |-> gistDescription,
        gistPublic |-> gistPublic, notification |-> "pending"]
  /\ UNCHANGED <<ghToken, gistDescription, gistPublic, permVars, authVars, histVars>>

\* createGist resolves: the success notification is shown and onHide is called
gistCreated ==
  /\ gistRequest.notification = "pending"
  /\ gistRequest' = [gistRequest EXCEPT !.notification = "success"]
  /\ UNCHANGED <<ghToken, gistDescription, gistPublic, permVars, authVars, histVars>>

\* createGist rejects: the error notification is shown
gistFailed ==
  /\ gistRequest.notification = "pending"
  /\ gistRequest' = [gistRequest EXCEPT !.notification = "error"]
  /\ UNCHANGED <<ghToken, gistDescription, gistPublic, permVars, authVars, histVars>>

InitGist ==
  /\ InitAuthVars
  /\ InitHistVars
  /\ InitGistVars
  /\ note = createNote(Null)
  /\ noteConfig \in {c \in Configs : c.guestAccess = "deny" /\ c.everyone = "none"}
  /\ call = NoCall
  /\ events = <<>>

NextGist ==
  \/ onGhTokenChange
  \/ onGistDescriptionChange
  \/ onGistPublicChange
  \/ onCreateGist
  \/ gistCreated
  \/ gistFailed

SpecGist == InitGist /\ [][NextGist]_vars

\* the token begins with the characters and has the length
begins(token, characters, length) ==
  /\ Len(token) = length
  /\ \A k \in DOMAIN characters : token[k] = characters[k]

\* a classic token or a scoped token
validFormat(token) ==
  \/ begins(token, <<"g", "h", "p", "_">>, 40)
  \/ begins(token, <<"g", "i", "t", "h", "u", "b", "_", "p", "a", "t", "_">>, 93)

\* C25: the create button is disabled exactly when the token neither starts
\* with 'ghp_' with length 40 nor starts with 'github_pat_' with length 93, so
\* createGist is never called from the button with a token of invalid format,
\* in particular not with the initial empty token.
C25_ValidToken ==
  /\ [](/\ disabled <=> ~validFormat(ghToken)
        /\ gistRequest.called =>
             /\ validFormat(gistRequest.ghToken)
             /\ gistRequest.ghToken # <<>>)
  /\ [][gistRequest' # gistRequest /\ gistRequest'.notification = "pending" =>
          /\ validFormat(ghToken)
          /\ gistRequest'.ghToken = ghToken]_vars

C25_Witness ==
  /\ gistRequest.called
  /\ gistRequest.ghToken = filled(GITHUB_SCOPED_TOKEN_PREFIX, 93)
  /\ ghToken = filled(GITHUB_CLASSIC_TOKEN_PREFIX, 93)
  /\ disabled

---------------------------------------------------------------------------
(* Write access and read access *)

\* C29: write access implies read access: for every user, logged-in or guest,
\* every note, every combination of owner, user grants and group grants and
\* every guest-access setting, mayWrite = true implies mayRead = true.
C29_WriteImpliesRead ==
  /\ (call.op = "mayWrite" /\ call.result) => mayRead(call.user, note, noteConfig)
  /\ \A user \in Users \cup {Null} :
       mayWrite(user, note, noteConfig) => mayRead(user, note, noteConfig)
  /\ \A expectation \in mayWriteWorksWith :
       expectation[2] =>
         /\ <<expectation[1], TRUE>> \in mayReadWorksWith
         /\ mayRead(user1, expectation[1], noteConfig)
  /\ \A expectation \in mayWriteGuestPermission :
       expectation[3] => <<expectation[1], expectation[2], TRUE>> \in mayReadGuestPermission
  /\ allowsWrite(note.groupPermissions, noteConfig.everyone)
       => allowsRead(note.groupPermissions, noteConfig.everyone)

C29_Witness ==
  /\ call.op = "mayWrite" /\ call.user = Null /\ call.result
  /\ note.owner = user2
  /\ note.userPermissions = <<>>
  /\ note.groupPermissions = <<createNoteGroupPermission(EVERYONE, TRUE)>>
  /\ noteConfig.guestAccess = "write"
  /\ noteConfig.everyone = "write"
  /\ mayRead(Null, note, noteConfig)

====
